---- MODULE Spec2Model ----
(***************************************************************************)
(* The thermostat REST API of server/server.go and server/validate.go:     *)
(* the store `home` (a mutex and a map of thermostats), its three locked   *)
(* operations, the routing middleware HandleRoute and the five handlers.   *)
(* Each request-handling goroutine is a process p; a step of the model is  *)
(* a piece of a handler between two accesses to shared state.              *)
(***************************************************************************)
EXTENDS Integers, Sequences, FiniteSets, TLC

\* ------------------------------------------------------------------ bounds
MaxRequests == 2
MaxClock == 1

Procs == {"g1", "g2"}

\* ------------------------------------------------------- program constants
\* A Go string that the program builds by concatenation (a name) is the
\* sequence of its parts, so "" is <<>> and + is \o.
defaultName1 == <<"Downstairs Thermostat">>
defaultName2 == <<"Upstairs Thermostat">>
defaultCurrentTemp1 == 71
defaultCurrentTemp2 == 72
defaultOpMode1 == "heat"
defaultOpMode2 == "cool"
defaultCoolSetPt1 == 68
defaultCoolSetPt2 == 69
defaultHeatSetPt1 == 72
defaultHeatSetPt2 == 73
defaultFan1 == "auto"
defaultFan2 == "on"

minCoolSetPt == 30
maxCoolSetPt == 100
minHeatSetPt == 30
maxHeatSetPt == 100

validOpModes == <<"cool", "heat", "off">>
validFanModes == <<"auto", "on">>
validFields == <<"name", "currentTemp", "mode", "coolSetPoint", "heatSetPoint", "fan">>

StatusOK == 200
StatusBadRequest == 400
StatusNotFound == 404

\* ------------------------------------------------------------------ inputs
\* The :id path segment, as the characters the router hands to strconv.Atoi.
IdParams == {<<"1">>, <<"3">>, <<"x">>}
\* The :field path segment.
FieldParams == {"name", "currentTemp", "other"}
\* Request bodies: malformed JSON, or the decoded updateThermostat.
InNames == {<<>>, <<"X">>}
InTemps == {0, 75}
InModes == {"", "off", "on"}
InCools == {0, 30, 101}
InHeats == {0, 74}
InFans == {"", "on", "off"}

updateThermostat ==
    [Name : InNames, Temperature : InTemps, OperatingMode : InModes,
     CoolSetPoint : InCools, HeatSetPoint : InHeats, FanMode : InFans]

\* The number of fields a request body sets.
FieldsSet(d) ==
    (IF d.Name # <<>> THEN 1 ELSE 0) + (IF d.Temperature # 0 THEN 1 ELSE 0)
    + (IF d.OperatingMode # "" THEN 1 ELSE 0) + (IF d.CoolSetPoint # 0 THEN 1 ELSE 0)
    + (IF d.HeatSetPoint # 0 THEN 1 ELSE 0) + (IF d.FanMode # "" THEN 1 ELSE 0)

\* The bodies the requests carry: no field or one field (the single-field
\* requests of TestPutThermostatSingle), or the five writable fields at once
\* (TestPutThermostatBulk, TestPostThermostat).
Desireds ==
    {d \in updateThermostat :
        \/ FieldsSet(d) <= 1
        \/ FieldsSet(d) = 5 /\ d.Temperature = 0}

\* What json.Unmarshal makes of a request body: an error, or the struct.
PostBodies ==
    {[ok |-> FALSE, d |-> [Name |-> <<>>, Temperature |-> 0, OperatingMode |-> "",
                           CoolSetPoint |-> 0, HeatSetPoint |-> 0, FanMode |-> ""]]}
    \cup {[ok |-> TRUE, d |-> d] : d \in Desireds}

\* ------------------------------------------------------------------- state
VARIABLES
    thermostats,  \* home.thermostats: id -> the record the map entry points to
    mutex,        \* home's embedded sync.Mutex: the holder, or "" when free
    now,          \* the last value time.Now() returned
    fatal,        \* the runtime threw "concurrent map iteration and map write"
    started,      \* requests accepted so far
    pc,           \* where each request-handling goroutine is
    handler,      \* the handler HandleRoute wraps for the request
    id,           \* HandleRoute's id (the result of strconv.Atoi)
    target,       \* the "thermostat" user value: the record Resolve found
    desired,      \* the decoded, validated request body
    newId,        \* PostThermostat's newId
    therms,       \* GetThermostats' range over the map: [start, seen]
    status,       \* the response's status code
    body,         \* the objects written to the response, in order
    field,        \* the :field user value, once GetField has read it
    vreq,         \* validateData's argument, when it is run on its own
    verr,         \* what that call returned
    vpc           \* "call" before that call, "return" after it

vars == <<thermostats, mutex, now, fatal, started, pc, handler, id, target,
          desired, newId, therms, status, body, field, vreq, verr, vpc>>

\* ----------------------------------------------------------- pure helpers
\* Go's integer division truncates toward zero.
Quo(a, b) == IF a >= 0 THEN a \div b ELSE -((-a) \div b)

inArray(char, strings) == \E i \in 1..Len(strings) : strings[i] = char

DigitVal(c) ==
    CASE c = "0" -> 0 [] c = "1" -> 1 [] c = "2" -> 2 [] c = "3" -> 3
      [] c = "4" -> 4 [] c = "5" -> 5 [] c = "6" -> 6 [] c = "7" -> 7
      [] c = "8" -> 8 [] c = "9" -> 9 [] OTHER -> -1

RECURSIVE AtoiDigits(_, _)
AtoiDigits(s, acc) ==
    IF s = <<>> THEN [val |-> acc, err |-> FALSE]
    ELSE IF DigitVal(Head(s)) < 0 THEN [val |-> 0, err |-> TRUE]
    ELSE AtoiDigits(Tail(s), acc * 10 + DigitVal(Head(s)))

\* strconv.Atoi: the value and whether it failed; 0 on a syntax error.
Atoi(s) ==
    IF s = <<>> THEN [val |-> 0, err |-> TRUE]
    ELSE IF Head(s) = "-" /\ Len(s) > 1
         THEN LET r == AtoiDigits(Tail(s), 0) IN [val |-> -r.val, err |-> r.err]
    ELSE AtoiDigits(s, 0)

DigitChar(d) ==
    CASE d = 0 -> "0" [] d = 1 -> "1" [] d = 2 -> "2" [] d = 3 -> "3"
      [] d = 4 -> "4" [] d = 5 -> "5" [] d = 6 -> "6" [] d = 7 -> "7"
      [] d = 8 -> "8" [] OTHER -> "9"

RECURSIVE ItoaDigits(_)
ItoaDigits(n) ==
    IF n < 10 THEN <<DigitChar(n)>>
    ELSE Append(ItoaDigits(n \div 10), DigitChar(n % 10))

\* strconv.Itoa, as the characters of the decimal representation.
Itoa(n) == IF n < 0 THEN <<"-">> \o ItoaDigits(-n) ELSE ItoaDigits(n)

\* The zero value of thermostat; a nil *thermostat is modelled by it.
NilThermostat ==
    [Id |-> 0, Name |-> <<>>, CurrentTemp |-> 0, PreviousTemp |-> 0,
     OperatingMode |-> "", CoolSetPoint |-> 0, HeatSetPoint |-> 0,
     FanMode |-> "", LastChanged |-> 0]

\* The zero value of updateThermostat.
NilDesired ==
    [Name |-> <<>>, Temperature |-> 0, OperatingMode |-> "",
     CoolSetPoint |-> 0, HeatSetPoint |-> 0, FanMode |-> ""]

\* errResponse; a nil *errResponse is NoErr.
errResponse(code, msg, description) ==
    [kind |-> "error", Code |-> code, Msg |-> msg, Description |-> description]
NoErr == [kind |-> "nil", Code |-> 0, Msg |-> "", Description |-> <<>>]

\* What sendJSON writes for a value that is not an errResponse.
Payload(v) == [kind |-> "data", val |-> v]

\* -------------------------------------------------------------- validation
\* Mutant of validateOpMode: every operating mode passes.
validateOpMode_AcceptAll(val) == NoErr

validateOpMode(val) ==
    IF val # "" /\ ~inArray(val, validOpModes)
    THEN errResponse(StatusBadRequest, "Invalid Operating Mode",
           <<"The operating mode provided is not valid. Valid choices are: 'cool', 'heat', or 'off'.">>)
    ELSE NoErr

validateFanMode(val) ==
    IF val # "" /\ ~inArray(val, validFanModes)
    THEN errResponse(StatusBadRequest, "Invalid Fan Mode",
           <<"The fan mode provided is not valid. Valid choices are: 'auto' or 'on'.">>)
    ELSE NoErr

\* Mutant of validateCoolSetPt: the upper limit itself is rejected.
validateCoolSetPt_MaxExcluded(val) ==
    IF val # 0 /\ (val >= maxCoolSetPt \/ val < minCoolSetPt)
    THEN errResponse(StatusBadRequest, "Invalid Cool Set Point", <<>>)
    ELSE NoErr

\* Mutant of validateCoolSetPt: only the lower limit is checked.
validateCoolSetPt_NoUpperLimit(val) ==
    IF val # 0 /\ val < minCoolSetPt
    THEN errResponse(StatusBadRequest, "Invalid Cool Set Point", <<>>)
    ELSE NoErr

validateCoolSetPt(val) ==
    IF val # 0 /\ (val > maxCoolSetPt \/ val < minCoolSetPt)
    THEN errResponse(StatusBadRequest, "Invalid Cool Set Point",
           <<"The cool set point provided is not within the allowed range. It must be between ">>
           \o Itoa(minCoolSetPt) \o <<" and ">> \o Itoa(maxCoolSetPt)
           \o <<" degrees Fahrenheit.">>)
    ELSE NoErr

validateHeatSetPt(val) ==
    IF val # 0 /\ (val > maxHeatSetPt \/ val < minHeatSetPt)
    THEN errResponse(StatusBadRequest, "Invalid Heat Set Point",
           <<"The heat set point provided is not within the allowed range. It must be between ">>
           \o Itoa(minHeatSetPt) \o <<" and ">> \o Itoa(maxHeatSetPt)
           \o <<" degrees Fahrenheit.">>)
    ELSE NoErr

\* Mutant of validateData: the fan mode is checked before the operating mode.
validateData_FanFirst(d) ==
    IF d.Temperature # 0
    THEN errResponse(StatusBadRequest, "Non-Writable Field", <<>>)
    ELSE IF validateFanMode(d.FanMode) # NoErr
    THEN validateFanMode(d.FanMode)
    ELSE IF validateOpMode(d.OperatingMode) # NoErr
    THEN validateOpMode(d.OperatingMode)
    ELSE IF validateCoolSetPt(d.CoolSetPoint) # NoErr
    THEN validateCoolSetPt(d.CoolSetPoint)
    ELSE IF validateHeatSetPt(d.HeatSetPoint) # NoErr
    THEN validateHeatSetPt(d.HeatSetPoint)
    ELSE NoErr

validateData(d) ==
    IF d.Temperature # 0
    THEN errResponse(StatusBadRequest, "Non-Writable Field",
           <<"The field 'currentTemp' is not a writable field. You must set the cool or heat set point (coolSetPoint/heatSetPoint) instead.">>)
    ELSE IF validateOpMode(d.OperatingMode) # NoErr
    THEN validateOpMode(d.OperatingMode)
    ELSE IF validateFanMode(d.FanMode) # NoErr
    THEN validateFanMode(d.FanMode)
    ELSE IF validateCoolSetPt(d.CoolSetPoint) # NoErr
    THEN validateCoolSetPt(d.CoolSetPoint)
    ELSE IF validateHeatSetPt(d.HeatSetPoint) # NoErr
    THEN validateHeatSetPt(d.HeatSetPoint)
    ELSE NoErr

\* json.Unmarshal followed by validateData, as PutThermostat and
\* PostThermostat run them: the error to send, or NoErr.
ParseAndValidate(b) ==
    IF ~b.ok
    THEN errResponse(StatusBadRequest, "Invalid JSON body provided",
                     <<"json.Unmarshal: err.Error()">>)
    ELSE validateData(b.d)

\* ------------------------------------------------------------------- store
\* Mutant of Thermostat: a missing id is no error.
Thermostat_NoNotFound(i) ==
    IF i \in DOMAIN thermostats
    THEN [t |-> thermostats[i], err |-> NoErr]
    ELSE [t |-> NilThermostat, err |-> NoErr]

\* Mutant of Thermostat: a missing id yields an empty record of that id.
Thermostat_EmptyRecord(i) ==
    IF i \in DOMAIN thermostats
    THEN [t |-> thermostats[i], err |-> NoErr]
    ELSE [t |-> [NilThermostat EXCEPT !.Id = i], err |-> NoErr]

\* home.Thermostat's lookup: the record and the error it returns.
Thermostat(i) ==
    IF i \in DOMAIN thermostats
    THEN [t |-> thermostats[i], err |-> NoErr]
    ELSE [t |-> NilThermostat,
          err |-> errResponse(StatusNotFound, "Not Found",
                              <<"No thermostat found for id: ">> \o Itoa(i))]

\* Mutant of Updated: the fan mode is taken from the request even when empty.
Updated_FanOverwritten(tg, d, t) ==
    LET cool == IF d.CoolSetPoint # 0 THEN d.CoolSetPoint ELSE tg.CoolSetPoint
        heat == IF d.HeatSetPoint # 0 THEN d.HeatSetPoint ELSE tg.HeatSetPoint
        temp == Quo(cool + heat, 2)
    IN  [Id |-> tg.Id,
         Name |-> IF d.Name # <<>> THEN d.Name ELSE tg.Name,
         OperatingMode |->
             IF d.OperatingMode # "" THEN d.OperatingMode ELSE tg.OperatingMode,
         CoolSetPoint |-> cool,
         HeatSetPoint |-> heat,
         FanMode |-> d.FanMode,
         CurrentTemp |-> IF temp # tg.CurrentTemp THEN temp ELSE 0,
         PreviousTemp |-> IF temp # tg.CurrentTemp THEN tg.CurrentTemp ELSE 0,
         LastChanged |-> t]

\* Mutant of Updated: the new record is built without the target's id.
Updated_IdDropped(tg, d, t) ==
    LET cool == IF d.CoolSetPoint # 0 THEN d.CoolSetPoint ELSE tg.CoolSetPoint
        heat == IF d.HeatSetPoint # 0 THEN d.HeatSetPoint ELSE tg.HeatSetPoint
        temp == Quo(cool + heat, 2)
    IN  [Id |-> 0,
         Name |-> IF d.Name # <<>> THEN d.Name ELSE tg.Name,
         OperatingMode |->
             IF d.OperatingMode # "" THEN d.OperatingMode ELSE tg.OperatingMode,
         CoolSetPoint |-> cool,
         HeatSetPoint |-> heat,
         FanMode |-> IF d.FanMode # "" THEN d.FanMode ELSE tg.FanMode,
         CurrentTemp |-> IF temp # tg.CurrentTemp THEN temp ELSE 0,
         PreviousTemp |-> IF temp # tg.CurrentTemp THEN tg.CurrentTemp ELSE 0,
         LastChanged |-> t]

\* Mutant of Updated: the timestamp is carried over from the target.
Updated_StampFromTarget(tg, d, t) ==
    LET cool == IF d.CoolSetPoint # 0 THEN d.CoolSetPoint ELSE tg.CoolSetPoint
        heat == IF d.HeatSetPoint # 0 THEN d.HeatSetPoint ELSE tg.HeatSetPoint
        temp == Quo(cool + heat, 2)
    IN  [Id |-> tg.Id,
         Name |-> IF d.Name # <<>> THEN d.Name ELSE tg.Name,
         OperatingMode |->
             IF d.OperatingMode # "" THEN d.OperatingMode ELSE tg.OperatingMode,
         CoolSetPoint |-> cool,
         HeatSetPoint |-> heat,
         FanMode |-> IF d.FanMode # "" THEN d.FanMode ELSE tg.FanMode,
         CurrentTemp |-> IF temp # tg.CurrentTemp THEN temp ELSE 0,
         PreviousTemp |-> IF temp # tg.CurrentTemp THEN tg.CurrentTemp ELSE 0,
         LastChanged |-> tg.LastChanged]

\* The record UpdateThermostat builds from target and desired at time t.
Updated(tg, d, t) ==
    LET cool == IF d.CoolSetPoint # 0 THEN d.CoolSetPoint ELSE tg.CoolSetPoint
        heat == IF d.HeatSetPoint # 0 THEN d.HeatSetPoint ELSE tg.HeatSetPoint
        temp == Quo(cool + heat, 2)
    IN  [Id |-> tg.Id,
         Name |-> IF d.Name # <<>> THEN d.Name ELSE tg.Name,
         OperatingMode |->
             IF d.OperatingMode # "" THEN d.OperatingMode ELSE tg.OperatingMode,
         CoolSetPoint |-> cool,
         HeatSetPoint |-> heat,
         FanMode |-> IF d.FanMode # "" THEN d.FanMode ELSE tg.FanMode,
         CurrentTemp |-> IF temp # tg.CurrentTemp THEN temp ELSE 0,
         PreviousTemp |-> IF temp # tg.CurrentTemp THEN tg.CurrentTemp ELSE 0,
         LastChanged |-> t]

\* The largest key of the map: ints[len(ints)-1] after sort.Ints.
MaxKey == CHOOSE k \in DOMAIN thermostats : \A j \in DOMAIN thermostats : j <= k

\* Mutant of NextId: the + 1 is forgotten.
NextId_NoIncrement == MaxKey

\* AddThermostat's newId.
NextId == MaxKey + 1

\* Mutant of Added: currentTemp is 71 unless the request gives both set points.
Added_71IfAbsent(n, d, t) ==
    LET cool == IF d.CoolSetPoint # 0 THEN d.CoolSetPoint ELSE 71
        heat == IF d.HeatSetPoint # 0 THEN d.HeatSetPoint ELSE 71
    IN  [Id |-> n,
         Name |-> IF d.Name # <<>> THEN d.Name ELSE <<"Thermostat #">> \o Itoa(n),
         OperatingMode |-> IF d.OperatingMode # "" THEN d.OperatingMode ELSE "off",
         CoolSetPoint |-> cool,
         HeatSetPoint |-> heat,
         FanMode |-> IF d.FanMode # "" THEN d.FanMode ELSE "auto",
         CurrentTemp |->
             IF d.CoolSetPoint # 0 /\ d.HeatSetPoint # 0
             THEN Quo(cool + heat, 2) ELSE 71,
         PreviousTemp |-> 0,
         LastChanged |-> t]

\* Mutant of Added: the default name is built from the id before the new one.
Added_NameOffByOne(n, d, t) ==
    LET cool == IF d.CoolSetPoint # 0 THEN d.CoolSetPoint ELSE 71
        heat == IF d.HeatSetPoint # 0 THEN d.HeatSetPoint ELSE 71
    IN  [Id |-> n,
         Name |-> IF d.Name # <<>> THEN d.Name ELSE <<"Thermostat #">> \o Itoa(n - 1),
         OperatingMode |-> IF d.OperatingMode # "" THEN d.OperatingMode ELSE "off",
         CoolSetPoint |-> cool,
         HeatSetPoint |-> heat,
         FanMode |-> IF d.FanMode # "" THEN d.FanMode ELSE "auto",
         CurrentTemp |-> IF cool # 0 /\ heat # 0 THEN Quo(cool + heat, 2) ELSE 71,
         PreviousTemp |-> 0,
         LastChanged |-> t]

\* The record AddThermostat builds for newId n from desired at time t.
Added(n, d, t) ==
    LET cool == IF d.CoolSetPoint # 0 THEN d.CoolSetPoint ELSE 71
        heat == IF d.HeatSetPoint # 0 THEN d.HeatSetPoint ELSE 71
    IN  [Id |-> n,
         Name |-> IF d.Name # <<>> THEN d.Name ELSE <<"Thermostat #">> \o Itoa(n),
         OperatingMode |-> IF d.OperatingMode # "" THEN d.OperatingMode ELSE "off",
         CoolSetPoint |-> cool,
         HeatSetPoint |-> heat,
         FanMode |-> IF d.FanMode # "" THEN d.FanMode ELSE "auto",
         CurrentTemp |-> IF cool # 0 /\ heat # 0 THEN Quo(cool + heat, 2) ELSE 71,
         PreviousTemp |-> 0,
         LastChanged |-> t]

\* Mutant of MapAssign: the map is replaced by one holding only the new entry.
MapAssign_Replace(k, r) == [x \in {k} |-> r]

\* home.thermostats[k] = r
MapAssign(k, r) ==
    [x \in DOMAIN thermostats \cup {k} |-> IF x = k THEN r ELSE thermostats[x]]

\* The values a call of time.Now() can return: the clock never goes back.
TimeNow == {t \in now..(now + 1) : t <= MaxClock}

\* -------------------------------------------------------------------- Init
\* The store and the goroutines after init(), before any request.
InitServer ==
    /\ thermostats =
         (1 :> [Id |-> 1, Name |-> defaultName1, CurrentTemp |-> 71,
                PreviousTemp |-> 0, OperatingMode |-> defaultOpMode1,
                CoolSetPoint |-> defaultCoolSetPt1,
                HeatSetPoint |-> defaultHeatSetPt1,
                FanMode |-> defaultFan1, LastChanged |-> 0])
         @@
         (2 :> [Id |-> 2, Name |-> defaultName2, CurrentTemp |-> 72,
                PreviousTemp |-> 0, OperatingMode |-> defaultOpMode2,
                CoolSetPoint |-> defaultCoolSetPt2,
                HeatSetPoint |-> defaultHeatSetPt2,
                FanMode |-> defaultFan2, LastChanged |-> 0])
    /\ mutex = ""
    /\ now = 0
    /\ fatal = FALSE
    /\ started = 0
    /\ pc = [p \in Procs |-> "idle"]
    /\ handler = [p \in Procs |-> ""]
    /\ id = [p \in Procs |-> 0]
    /\ target = [p \in Procs |-> NilThermostat]
    /\ desired = [p \in Procs |-> NilDesired]
    /\ newId = [p \in Procs |-> 0]
    /\ therms = [p \in Procs |-> [start |-> {}, seen |-> <<>>]]
    /\ status = [p \in Procs |-> StatusOK]
    /\ body = [p \in Procs |-> <<>>]
    /\ field = [p \in Procs |-> ""]

Init ==
    /\ InitServer
    /\ vreq = NilDesired
    /\ verr = NoErr
    /\ vpc = "off"

\* ------------------------------------------------------------ request end
\* The handler returns: the goroutine's locals die with it.
Finish(p, st, bd) ==
    /\ pc' = [pc EXCEPT ![p] = "done"]
    /\ status' = [status EXCEPT ![p] = st]
    /\ body' = [body EXCEPT ![p] = bd]
    /\ id' = [id EXCEPT ![p] = 0]
    /\ target' = [target EXCEPT ![p] = NilThermostat]
    /\ desired' = [desired EXCEPT ![p] = NilDesired]
    /\ newId' = [newId EXCEPT ![p] = 0]
    /\ therms' = [therms EXCEPT ![p] = [start |-> {}, seen |-> <<>>]]

\* -------------------------------------------------------------- middleware
WithId == {"GetThermostat", "GetField", "PutThermostat"}
WithoutId == {"GetThermostats", "PostThermostat"}

\* A request arrives and HandleRoute runs up to its first use of the store:
\* the content type, and for a route with :id the strconv.Atoi of it.
HandleRoute(p) ==
    /\ ~fatal
    /\ pc[p] \in {"idle", "done"}
    /\ started < MaxRequests
    /\ started' = started + 1
    /\ \E h \in WithId \cup WithoutId :
         /\ handler' = [handler EXCEPT ![p] = h]
         /\ IF h \in WithId
            THEN \E s \in IdParams :
                   LET a == Atoi(s) IN
                   /\ id' = [id EXCEPT ![p] = a.val]
                   /\ IF a.err
                      THEN /\ status' = [status EXCEPT ![p] = StatusBadRequest]
                           /\ body' = [body EXCEPT ![p] =
                                <<errResponse(StatusBadRequest,
                                     "Invalid identifier provided",
                                     <<"strconv.Atoi: parsing \"">> \o s
                                         \o <<"\": invalid syntax">>)>>]
                           /\ pc' = [pc EXCEPT ![p] = "mw_lock"]
                      ELSE /\ status' = [status EXCEPT ![p] = StatusOK]
                           /\ body' = [body EXCEPT ![p] = <<>>]
                           /\ pc' = [pc EXCEPT ![p] = "mw_lock"]
            ELSE /\ id' = [id EXCEPT ![p] = 0]
                 /\ status' = [status EXCEPT ![p] = StatusOK]
                 /\ body' = [body EXCEPT ![p] = <<>>]
                 /\ pc' = [pc EXCEPT ![p] = "handler"]
    /\ UNCHANGED <<thermostats, mutex, now, fatal, target, desired, newId, therms>>
    /\ field' = [field EXCEPT ![p] = ""]
    /\ UNCHANGED <<vreq, verr, vpc>>

\* home.Lock() at the top of home.Thermostat, called by HandleRoute or by
\* PostThermostat.
ThermostatLock(p) ==
    /\ ~fatal
    /\ pc[p] \in {"mw_lock", "post_lock"}
    /\ mutex = ""
    /\ mutex' = p
    /\ pc' = [pc EXCEPT ![p] = IF pc[p] = "mw_lock" THEN "mw_cs" ELSE "post_cs"]
    /\ UNCHANGED <<thermostats, now, fatal, started, handler, id, target,
                   desired, newId, therms, status, body>>
    /\ UNCHANGED <<field, vreq, verr, vpc>>

\* The rest of home.Thermostat(id) in HandleRoute (lookup, deferred Unlock)
\* and what HandleRoute does with the result.
Resolve(p) ==
    /\ ~fatal
    /\ pc[p] = "mw_cs"
    /\ mutex = p
    /\ mutex' = ""
    /\ LET r == Thermostat(id[p]) IN
       IF r.err # NoErr
       THEN Finish(p, StatusNotFound, Append(body[p], r.err))
       ELSE /\ target' = [target EXCEPT ![p] = r.t]
            /\ pc' = [pc EXCEPT ![p] = "handler"]
            /\ UNCHANGED <<id, desired, newId, therms, status, body>>
    /\ UNCHANGED <<thermostats, now, fatal, started, handler>>
    /\ UNCHANGED <<field, vreq, verr, vpc>>

\* ---------------------------------------------------------------- handlers
\* Mutant of UserValueThermostat: the record behind the pointer is the one
\* the store holds now, as if updates wrote into it.
UserValueThermostat_InPlace(p) == thermostats[target[p].Id]

\* req.UserValue("thermostat").(*thermostat) in GetThermostat and GetField:
\* the record HandleRoute put in the request, which no code writes to.
UserValueThermostat(p) == target[p]

\* GetThermostat: the resolved record, as it was at Resolve.
GetThermostat(p) ==
    /\ ~fatal
    /\ pc[p] = "handler" /\ handler[p] = "GetThermostat"
    /\ Finish(p, StatusOK, Append(body[p], Payload(UserValueThermostat(p))))
    /\ UNCHANGED <<thermostats, mutex, now, fatal, started, handler>>
    /\ UNCHANGED <<field, vreq, verr, vpc>>

\* Mutant of FieldOf: currentTemp answers with the previous temperature.
FieldOf_PreviousTemp(t, f) ==
    CASE f = "name" -> [isEmpty |-> t.Name = <<>>, returnVal |-> t.Name]
      [] f = "currentTemp" ->
           [isEmpty |-> t.CurrentTemp = 0, returnVal |-> t.PreviousTemp]
      [] f = "mode" ->
           [isEmpty |-> t.OperatingMode = "", returnVal |-> t.OperatingMode]
      [] f = "coolSetPoint" ->
           [isEmpty |-> t.CoolSetPoint = 0, returnVal |-> t.CoolSetPoint]
      [] f = "heatSetPoint" ->
           [isEmpty |-> t.HeatSetPoint = 0, returnVal |-> t.HeatSetPoint]
      [] f = "fan" -> [isEmpty |-> t.FanMode = "", returnVal |-> t.FanMode]

\* GetField's switch: the field's value and whether it is the zero value.
FieldOf(t, f) ==
    CASE f = "name" -> [isEmpty |-> t.Name = <<>>, returnVal |-> t.Name]
      [] f = "currentTemp" ->
           [isEmpty |-> t.CurrentTemp = 0, returnVal |-> t.CurrentTemp]
      [] f = "mode" ->
           [isEmpty |-> t.OperatingMode = "", returnVal |-> t.OperatingMode]
      [] f = "coolSetPoint" ->
           [isEmpty |-> t.CoolSetPoint = 0, returnVal |-> t.CoolSetPoint]
      [] f = "heatSetPoint" ->
           [isEmpty |-> t.HeatSetPoint = 0, returnVal |-> t.HeatSetPoint]
      [] f = "fan" -> [isEmpty |-> t.FanMode = "", returnVal |-> t.FanMode]

GetField(p) ==
    /\ ~fatal
    /\ pc[p] = "handler" /\ handler[p] = "GetField"
    /\ \E f \in FieldParams :
         /\ field' = [field EXCEPT ![p] = f]
         /\ IF ~inArray(f, validFields)
            THEN Finish(p, StatusBadRequest,
                     Append(body[p], errResponse(StatusBadRequest, "Invalid Property",
                         <<"The property provided is not a valid property of a thermostat. Valid choices are: 'name', 'currentTemp', 'mode', 'coolSetPoint', 'heatSetPoint', or 'fan'.">>)))
            ELSE IF FieldOf(UserValueThermostat(p), f).isEmpty
            THEN Finish(p, StatusNotFound,
                     Append(body[p], errResponse(StatusNotFound, "Not Found",
                         <<"No field '", f, "' exists for requested thermostat.">>)))
            ELSE Finish(p, StatusOK,
                     Append(body[p],
                         Payload(FieldOf(UserValueThermostat(p), f).returnVal)))
    /\ UNCHANGED <<thermostats, mutex, now, fatal, started, handler>>
    /\ UNCHANGED <<vreq, verr, vpc>>

\* Mutant of ParseBody: the 400 is sent but the handler does not return.
ParseBody_NoReturn(p) ==
    /\ ~fatal
    /\ pc[p] = "handler" /\ handler[p] \in {"PutThermostat", "PostThermostat"}
    /\ \E b \in PostBodies :
         LET err == ParseAndValidate(b) IN
         /\ desired' = [desired EXCEPT ![p] = b.d]
         /\ pc' = [pc EXCEPT ![p] =
              IF handler[p] = "PutThermostat" THEN "upd_lock" ELSE "add_lock"]
         /\ IF err # NoErr
            THEN /\ status' = [status EXCEPT ![p] = StatusBadRequest]
                 /\ body' = [body EXCEPT ![p] = Append(body[p], err)]
            ELSE UNCHANGED <<status, body>>
         /\ UNCHANGED <<id, target, newId, therms>>
    /\ UNCHANGED <<thermostats, mutex, now, fatal, started, handler>>
    /\ UNCHANGED <<field, vreq, verr, vpc>>

\* PutThermostat and PostThermostat up to the call into the store: decode
\* the body and validate it.
ParseBody(p) ==
    /\ ~fatal
    /\ pc[p] = "handler" /\ handler[p] \in {"PutThermostat", "PostThermostat"}
    /\ \E b \in PostBodies :
         LET err == ParseAndValidate(b) IN
         IF err # NoErr
         THEN Finish(p, StatusBadRequest, Append(body[p], err))
         ELSE /\ desired' = [desired EXCEPT ![p] = b.d]
              /\ pc' = [pc EXCEPT ![p] =
                   IF handler[p] = "PutThermostat" THEN "upd_lock" ELSE "add_lock"]
              /\ UNCHANGED <<id, target, newId, therms, status, body>>
    /\ UNCHANGED <<thermostats, mutex, now, fatal, started, handler>>
    /\ UNCHANGED <<field, vreq, verr, vpc>>

\* Mutant of WriterLock: the writer does not wait for the lock to be free.
WriterLock_NoWait(p) ==
    /\ ~fatal
    /\ pc[p] \in {"upd_lock", "add_lock"}
    /\ mutex' = p
    /\ pc' = [pc EXCEPT ![p] = IF pc[p] = "upd_lock" THEN "upd_cs" ELSE "add_cs"]
    /\ UNCHANGED <<thermostats, now, fatal, started, handler, id, target,
                   desired, newId, therms, status, body>>
    /\ UNCHANGED <<field, vreq, verr, vpc>>

\* home.Lock() at the top of UpdateThermostat or AddThermostat.
WriterLock(p) ==
    /\ ~fatal
    /\ pc[p] \in {"upd_lock", "add_lock"}
    /\ mutex = ""
    /\ mutex' = p
    /\ pc' = [pc EXCEPT ![p] = IF pc[p] = "upd_lock" THEN "upd_cs" ELSE "add_cs"]
    /\ UNCHANGED <<thermostats, now, fatal, started, handler, id, target,
                   desired, newId, therms, status, body>>
    /\ UNCHANGED <<field, vreq, verr, vpc>>

\* Mutant of UpdateTarget: the record is read again under the lock.
UpdateTarget_Reread(p) == thermostats[target[p].Id]

\* The target PutThermostat hands to UpdateThermostat.
UpdateTarget(p) == target[p]

\* UpdateThermostat from after Lock to Unlock, and PutThermostat's 200.
UpdateThermostat(p) ==
    /\ ~fatal
    /\ pc[p] = "upd_cs"
    /\ mutex = p
    /\ \E t \in TimeNow :
         /\ now' = t
         /\ thermostats' =
              MapAssign(UpdateTarget(p).Id, Updated(UpdateTarget(p), desired[p], t))
    /\ mutex' = ""
    /\ Finish(p, StatusOK, body[p])
    /\ UNCHANGED <<fatal, started, handler>>
    /\ UNCHANGED <<field, vreq, verr, vpc>>

\* AddThermostat from after Lock to Unlock, and PostThermostat's 200.
AddThermostat(p) ==
    /\ ~fatal
    /\ pc[p] = "add_cs"
    /\ mutex = p
    /\ \E t \in TimeNow :
         /\ now' = t
         /\ thermostats' = MapAssign(NextId, Added(NextId, desired[p], t))
    /\ newId' = [newId EXCEPT ![p] = NextId]
    /\ mutex' = ""
    /\ status' = [status EXCEPT ![p] = StatusOK]
    /\ pc' = [pc EXCEPT ![p] = "post_lock"]
    /\ UNCHANGED <<fatal, started, handler, id, target, desired, therms, body>>
    /\ UNCHANGED <<field, vreq, verr, vpc>>

\* The rest of home.Thermostat(newId) in PostThermostat, and the response.
PostThermostat(p) ==
    /\ ~fatal
    /\ pc[p] = "post_cs"
    /\ mutex = p
    /\ mutex' = ""
    /\ LET r == Thermostat(newId[p]) IN
       IF r.err # NoErr
       THEN Finish(p, StatusBadRequest, Append(body[p], r.err))
       ELSE Finish(p, status[p], Append(body[p], Payload(r.t)))
    /\ UNCHANGED <<thermostats, now, fatal, started, handler>>
    /\ UNCHANGED <<field, vreq, verr, vpc>>

\* GetThermostats ranges over home.thermostats without taking the mutex.
\* The range starts here: the keys present now will all be produced, keys
\* added later may be produced or skipped.
GetThermostats(p) ==
    /\ ~fatal
    /\ pc[p] = "handler" /\ handler[p] = "GetThermostats"
    /\ therms' = [therms EXCEPT ![p] = [start |-> DOMAIN thermostats, seen |-> <<>>]]
    /\ pc' = [pc EXCEPT ![p] = "range"]
    /\ UNCHANGED <<thermostats, mutex, now, fatal, started, handler, id, target,
                   desired, newId, status, body>>
    /\ UNCHANGED <<field, vreq, verr, vpc>>

\* One iteration of the range: the next entry, as the map holds it now.
RangeNext(p) ==
    /\ ~fatal
    /\ pc[p] = "range"
    /\ \E k \in DOMAIN thermostats \ DOMAIN therms[p].seen :
         therms' = [therms EXCEPT ![p].seen = (k :> thermostats[k]) @@ @]
    /\ UNCHANGED <<thermostats, mutex, now, fatal, started, pc, handler, id,
                   target, desired, newId, status, body>>
    /\ UNCHANGED <<field, vreq, verr, vpc>>

\* Another goroutine is between Lock and Unlock of a store operation that
\* assigns to the map.
WriterInside(p) == \E q \in Procs \ {p} : pc[q] \in {"upd_cs", "add_cs"}

\* The range runs while a writer is inside the map assignment: the runtime
\* may detect it and end the process ("concurrent map iteration and map
\* write"); when it does not, RangeNext goes on.
RangeThrow(p) ==
    /\ ~fatal
    /\ pc[p] = "range"
    /\ WriterInside(p)
    /\ fatal' = TRUE
    /\ UNCHANGED <<thermostats, mutex, now, started, pc, handler, id, target,
                   desired, newId, therms, status, body>>
    /\ UNCHANGED <<field, vreq, verr, vpc>>

\* The range is over: the 404 for no thermostats, or the list.
RangeDone(p) ==
    /\ ~fatal
    /\ pc[p] = "range"
    /\ therms[p].start \subseteq DOMAIN therms[p].seen
    /\ IF DOMAIN therms[p].seen = {}
       THEN Finish(p, StatusNotFound,
                   Append(body[p], errResponse(StatusNotFound, "Not Found",
                                               <<"No thermostats were found.">>)))
       ELSE Finish(p, StatusOK, Append(body[p], Payload(therms[p].seen)))
    /\ UNCHANGED <<thermostats, mutex, now, fatal, started, handler>>
    /\ UNCHANGED <<field, vreq, verr, vpc>>

\* ------------------------------------------------------------ specification
Next ==
    \E p \in Procs :
        \/ HandleRoute(p)
        \/ ThermostatLock(p)
        \/ Resolve(p)
        \/ GetThermostat(p)
        \/ GetField(p)
        \/ ParseBody(p)
        \/ WriterLock(p)
        \/ UpdateThermostat(p)
        \/ AddThermostat(p)
        \/ PostThermostat(p)
        \/ GetThermostats(p)
        \/ RangeNext(p)
        \/ RangeThrow(p)
        \/ RangeDone(p)

Spec == Init /\ [][Next]_vars

\* The steps a request's goroutine takes by itself once the request is in: the
\* scheduler runs every goroutine that can run.
Run(p) ==
    \/ Resolve(p)
    \/ GetThermostat(p)
    \/ GetField(p)
    \/ ParseBody(p)
    \/ UpdateThermostat(p)
    \/ AddThermostat(p)
    \/ PostThermostat(p)
    \/ GetThermostats(p)
    \/ RangeNext(p)
    \/ RangeDone(p)

\* Goroutines are scheduled fairly, and sync.Mutex hands the lock to a waiter
\* that keeps waiting (starvation mode). Nothing obliges a request to arrive
\* or the runtime to detect a race.
Fairness ==
    \A p \in Procs :
        /\ WF_vars(Run(p))
        /\ SF_vars(ThermostatLock(p))
        /\ SF_vars(WriterLock(p))

SpecFair == Spec /\ Fairness

\* ------------------------------------------- the same PUT twice in a row
\* The bodies validateData lets through.
ValidBodies == {d \in updateThermostat : validateData(d) = NoErr}

\* One client, no other request: the body it will send twice is vreq.
InitPutTwice ==
    /\ InitServer
    /\ vreq \in ValidBodies
    /\ verr = NoErr
    /\ vpc = "first"

\* A whole PUT /v1/thermostats/:id with body vreq, run alone: the lookup of
\* HandleRoute, validateData, UpdateThermostat. The second PUT goes to the id
\* of the first.
PutSequential ==
    /\ vpc \in {"first", "second"}
    /\ \E k \in (IF vpc = "first" THEN DOMAIN thermostats ELSE {id["g1"]}) :
         LET r == Thermostat(k) IN
         /\ r.err = NoErr
         /\ validateData(vreq) = NoErr
         /\ \E t \in TimeNow :
              /\ now' = t
              /\ thermostats' = MapAssign(r.t.Id, Updated(r.t, vreq, t))
         /\ id' = [id EXCEPT !["g1"] = k]
    /\ vpc' = IF vpc = "first" THEN "second" ELSE "end"
    /\ UNCHANGED <<mutex, fatal, started, pc, handler, target, desired, newId,
                   therms, status, body, field, vreq, verr>>

NextPutTwice == PutSequential

SpecPutTwice == InitPutTwice /\ [][NextPutTwice]_vars

\* ------------------------------------------------- validateData on its own
\* The arguments validateData is run on.
VNames == {<<>>, <<"X">>}
VTemps == {0, 75}
VModes == {"", "cool", "heat", "off", "on"}
VFans == {"", "auto", "on", "off"}
VSetPoints == {-1, 0, 29, 30, 100, 101}

InitValidate ==
    /\ InitServer
    /\ vreq \in [Name : VNames, Temperature : VTemps, OperatingMode : VModes,
                 CoolSetPoint : VSetPoints, HeatSetPoint : VSetPoints,
                 FanMode : VFans]
    /\ verr = NoErr
    /\ vpc = "call"

\* One call of validateData(vreq).
Validate ==
    /\ vpc = "call"
    /\ verr' = validateData(vreq)
    /\ vpc' = "return"
    /\ UNCHANGED <<thermostats, mutex, now, fatal, started, pc, handler, id,
                   target, desired, newId, therms, status, body, field, vreq>>

NextValidate == Validate

SpecValidate == InitValidate /\ [][NextValidate]_vars

\* ================================================================== claims
\* p's UpdateThermostat commits in this step.
UpdateStep(p) == pc[p] = "upd_cs" /\ pc'[p] = "done"

\* p's AddThermostat commits in this step.
AddStep(p) == pc[p] = "add_cs" /\ pc'[p] = "post_lock"

Midpoint(r) == (r.CoolSetPoint + r.HeatSetPoint) \div 2

\* C1: after every UpdateThermostat and every AddThermostat the stored
\* record's currentTemp is the midpoint (integer division) of its own stored
\* set points, also when the midpoint equals the target's prior currentTemp.
C1_CurrentTempIsMidpoint ==
    [][\A p \in Procs :
         /\ UpdateStep(p) =>
              thermostats'[target[p].Id].CurrentTemp
                  = Midpoint(thermostats'[target[p].Id])
         /\ AddStep(p) =>
              thermostats'[newId'[p]].CurrentTemp
                  = Midpoint(thermostats'[newId'[p]])]_vars

\* All fields of two records but lastChanged agree.
SameButLastChanged(a, b) ==
    /\ a.Id = b.Id
    /\ a.Name = b.Name
    /\ a.OperatingMode = b.OperatingMode
    /\ a.CoolSetPoint = b.CoolSetPoint
    /\ a.HeatSetPoint = b.HeatSetPoint
    /\ a.FanMode = b.FanMode
    /\ a.CurrentTemp = b.CurrentTemp
    /\ a.PreviousTemp = b.PreviousTemp

\* C2: an update whose request has every field empty/zero leaves the record's
\* id, name, mode, set points, fan, currentTemp and previousTemp as they were.
C2_EmptyUpdateChangesOnlyLastChanged ==
    [][\A p \in Procs :
         (UpdateStep(p) /\ desired[p] = NilDesired) =>
             SameButLastChanged(thermostats[target[p].Id],
                                thermostats'[target[p].Id])]_vars

\* C3: on every update, when the midpoint of the stored set points differs
\* from the target's prior currentTemp the stored previousTemp is that prior
\* currentTemp, and otherwise it is the target's previousTemp.
C3_PreviousTempShift ==
    [][\A p \in Procs :
         UpdateStep(p) =>
             LET new == thermostats'[target[p].Id] IN
             IF Midpoint(new) # target[p].CurrentTemp
             THEN new.PreviousTemp = target[p].CurrentTemp
             ELSE new.PreviousTemp = target[p].PreviousTemp]_vars

\* C4: the id AddThermostat returns is strictly positive, was no key of the
\* store before the call, is the largest key of that moment plus one (3 for
\* the first create after start-up), and no two creates in flight hold the
\* same id.
C4_NewIdIsMaxPlusOne ==
    [][\A p \in Procs :
         AddStep(p) =>
             /\ newId'[p] > 0
             /\ newId'[p] \notin DOMAIN thermostats
             /\ newId'[p] - 1 \in DOMAIN thermostats
             /\ \A k \in DOMAIN thermostats : k < newId'[p]
             /\ DOMAIN thermostats = {1, 2} => newId'[p] = 3
             /\ DOMAIN thermostats' = DOMAIN thermostats \cup {newId'[p]}
             /\ thermostats'[newId'[p]].Id = newId'[p]
             /\ \A q \in Procs \ {p} : newId'[q] # newId'[p]]_vars

\* C4 witness: two creates were in flight together and got ids 3 and 4.
C4_Witness ==
    \E p, q \in Procs :
        /\ p # q
        /\ pc[p] \in {"post_lock", "post_cs"} /\ newId[p] = 3
        /\ pc[q] \in {"post_lock", "post_cs"} /\ newId[q] = 4

\* C5: no reachable state has one request reading the map (GetThermostats'
\* range included) while another request is inside UpdateThermostat or
\* AddThermostat writing it.
C5_NoReadWhileWriting ==
    \A p, q \in Procs :
        ~(pc[p] = "range" /\ pc[q] \in {"upd_cs", "add_cs"})

\* The objects of a body that are errResponses with the given message.
HasError(bd, msg) ==
    \E i \in 1..Len(bd) : bd[i].kind = "error" /\ bd[i].Msg = msg

\* C6: a request whose id path segment does not parse as an integer finishes
\* with status 400, not 404.
C6_BadIdIs400 ==
    \A p \in Procs :
        (pc[p] = "done" /\ HasError(body[p], "Invalid identifier provided"))
            => status[p] = StatusBadRequest

\* C7: every finished request wrote one outcome: one success payload (none
\* for the empty 200 of a PUT) or exactly one error object, never two objects.
C7_OneOutcome ==
    \A p \in Procs :
        pc[p] = "done" =>
            /\ Len(body[p]) <= 1
            /\ Len(body[p]) = 0 =>
                   (handler[p] = "PutThermostat" /\ status[p] = StatusOK)

\* An object the routing middleware wrote: the 400 for an id that does not
\* parse or the 404 of home.Thermostat.
MiddlewareError(e) ==
    /\ e.kind = "error"
    /\ \/ e.Msg = "Invalid identifier provided"
       \/ e.Msg = "Not Found" /\ Head(e.Description) = "No thermostat found for id: "

\* C8: when the middleware detects an error (id that does not parse, id not
\* in the store) the wrapped handler never runs for that request and the
\* store is not modified: the request goes from the lookup to its end, and
\* nothing but the middleware writes to its response.
C8_MiddlewareShortCircuits ==
    [][\A p \in Procs :
         /\ (\E i \in 1..Len(body'[p]) : MiddlewareError(body'[p][i])) =>
              /\ pc'[p] \in {"mw_lock", "mw_cs", "done"}
              /\ \A i \in 1..Len(body'[p]) : MiddlewareError(body'[p][i])
              /\ body'[p] # body[p] => thermostats' = thermostats
         /\ (pc[p] = "mw_cs" /\ id[p] \notin DOMAIN thermostats /\ pc'[p] # "mw_cs") =>
              /\ pc'[p] = "done"
              /\ thermostats' = thermostats
              /\ MiddlewareError(body'[p][Len(body'[p])])
         /\ (pc'[p] \in {"handler", "upd_lock", "upd_cs"} /\ handler'[p] \in WithId) =>
              /\ body'[p] = <<>>
              /\ target'[p].Id \in DOMAIN thermostats']_vars

\* C8 witness: a GetField request for an id that is not in the store ended
\* in the middleware with the 404.
C8_Witness ==
    \E p \in Procs :
        /\ pc[p] = "done" /\ handler[p] = "GetField"
        /\ status[p] = StatusNotFound
        /\ Len(body[p]) = 1 /\ MiddlewareError(body[p][1])

\* C9: UpdateThermostat stores the merge of desired with the target snapshot
\* of this request's Resolve, whatever the store holds then: a field another
\* update changed in between and this request leaves empty/zero goes back to
\* the snapshot's value; the request returns 200.
C9_StaleTargetWins ==
    [][\A p \in Procs :
         UpdateStep(p) =>
             LET tg == target[p]
                 d == desired[p]
                 new == thermostats'[target[p].Id]
             IN  /\ new.Name = IF d.Name # <<>> THEN d.Name ELSE tg.Name
                 /\ new.OperatingMode =
                      IF d.OperatingMode # "" THEN d.OperatingMode ELSE tg.OperatingMode
                 /\ new.CoolSetPoint =
                      IF d.CoolSetPoint # 0 THEN d.CoolSetPoint ELSE tg.CoolSetPoint
                 /\ new.HeatSetPoint =
                      IF d.HeatSetPoint # 0 THEN d.HeatSetPoint ELSE tg.HeatSetPoint
                 /\ new.FanMode = IF d.FanMode # "" THEN d.FanMode ELSE tg.FanMode
                 /\ status'[p] = StatusOK]_vars

\* C9 witness: p is inside UpdateThermostat with a target whose name another
\* PUT, answered 200, has changed since p's Resolve, and p's request leaves
\* the name empty.
C9_Witness ==
    \E p, q \in Procs :
        /\ p # q
        /\ pc[p] = "upd_cs"
        /\ desired[p].Name = <<>>
        /\ thermostats[target[p].Id].Name # target[p].Name
        /\ pc[q] = "done" /\ handler[q] = "PutThermostat" /\ status[q] = StatusOK

\* C10: every stored record has mode in {heat, cool, off} and fan in
\* {auto, on}.
C10_EnumsValid ==
    \A k \in DOMAIN thermostats :
        /\ thermostats[k].OperatingMode \in {"heat", "cool", "off"}
        /\ thermostats[k].FanMode \in {"auto", "on"}

\* C10 witness: a validated update has changed the mode of record 1 and a
\* validated create has added record 3 with the request's fan.
C10_Witness ==
    /\ thermostats[1].OperatingMode = "off"
    /\ 3 \in DOMAIN thermostats
    /\ thermostats[3].FanMode = "on"

\* The rules of validation, one by one, as the claims state them.
TempWritten(d) == d.Temperature # 0
ModeBad(d) == d.OperatingMode \notin {"", "heat", "cool", "off"}
FanBad(d) == d.FanMode \notin {"", "auto", "on"}
CoolBad(d) == d.CoolSetPoint # 0 /\ ~(30 <= d.CoolSetPoint /\ d.CoolSetPoint <= 100)
HeatBad(d) == d.HeatSetPoint # 0 /\ ~(30 <= d.HeatSetPoint /\ d.HeatSetPoint <= 100)

\* C11: validateData returns no error exactly when currentTemp is 0, mode is
\* empty or one of heat, cool, off, fan is empty or one of auto, on, and each
\* set point is 0 or within 30..100 (29, 101 and negatives rejected, 30 and
\* 100 accepted); the name is no reason for rejection.
C11_ValidateAcceptsExactly ==
    vpc = "return" =>
        (verr = NoErr <=>
            ~(TempWritten(vreq) \/ ModeBad(vreq) \/ FanBad(vreq)
              \/ CoolBad(vreq) \/ HeatBad(vreq)))

\* C11 witness: a named request with the set points on the two limits passed.
C11_Witness ==
    /\ vpc = "return" /\ verr = NoErr
    /\ vreq.Name = <<"X">>
    /\ vreq.CoolSetPoint = 100 /\ vreq.HeatSetPoint = 30
    /\ vreq.OperatingMode = "heat" /\ vreq.FanMode = "auto"

\* C12: when several rules are violated validateData reports the first one
\* in the order currentTemp, operating mode, fan mode, cool set point, heat
\* set point; every error has code 400.
C12_FirstViolationReported ==
    vpc = "return" =>
        /\ verr.Msg =
             IF TempWritten(vreq) THEN "Non-Writable Field"
             ELSE IF ModeBad(vreq) THEN "Invalid Operating Mode"
             ELSE IF FanBad(vreq) THEN "Invalid Fan Mode"
             ELSE IF CoolBad(vreq) THEN "Invalid Cool Set Point"
             ELSE IF HeatBad(vreq) THEN "Invalid Heat Set Point"
             ELSE ""
        /\ verr # NoErr => (verr.kind = "error" /\ verr.Code = 400)

\* C12 witness: mode, fan and both set points were invalid together and the
\* operating mode was the one reported.
C12_Witness ==
    /\ vpc = "return"
    /\ vreq.Temperature = 0 /\ vreq.OperatingMode = "on" /\ vreq.FanMode = "off"
    /\ vreq.CoolSetPoint = 101 /\ vreq.HeatSetPoint = 29
    /\ verr.Msg = "Invalid Operating Mode"

\* C13 as claimed: on create the new record's currentTemp is 71 when the
\* request leaves coolSetPoint or heatSetPoint absent (zero), and the midpoint
\* of the two when it gives both.
C13_Original71IfEitherAbsent ==
    [][\A p \in Procs :
         AddStep(p) =>
             LET d == desired[p]
                 new == thermostats'[newId'[p]]
             IN  IF d.CoolSetPoint = 0 \/ d.HeatSetPoint = 0
                 THEN new.CurrentTemp = 71
                 ELSE new.CurrentTemp = (d.CoolSetPoint + d.HeatSetPoint) \div 2]_vars

\* A set point of a create request, or its default when the request has none.
OrDefault71(v) == IF v = 0 THEN 71 ELSE v

\* C13 amended: on create the new record's currentTemp is the midpoint of the
\* set points after an absent one is replaced by its default 71: 71 when
\* both are absent, (given + 71) / 2 when one is given, the midpoint of the
\* two when both are.
C13_MidpointAfterDefaults ==
    [][\A p \in Procs :
         AddStep(p) =>
             LET d == desired[p]
                 new == thermostats'[newId'[p]]
             IN  /\ new.CurrentTemp =
                      (OrDefault71(d.CoolSetPoint) + OrDefault71(d.HeatSetPoint)) \div 2
                 /\ (d.CoolSetPoint = 0 /\ d.HeatSetPoint = 0) => new.CurrentTemp = 71]_vars

\* C13 witness: a create that gave coolSetPoint 30 and no heatSetPoint has
\* stored currentTemp 50.
C13_Witness ==
    \E p \in Procs :
        /\ pc[p] = "post_lock" /\ newId[p] = 3
        /\ desired[p].CoolSetPoint = 30 /\ desired[p].HeatSetPoint = 0
        /\ thermostats[3].CurrentTemp = 50

\* The default name of the thermostat with a one-digit id.
ExpectedDefaultName(n) ==
    <<"Thermostat #",
      CASE n = 3 -> "3" [] n = 4 -> "4" [] n = 5 -> "5" [] n = 6 -> "6"
        [] n = 7 -> "7" [] n = 8 -> "8" [] OTHER -> "9">>

\* C14: on create each field of the new record is the request's value when
\* that is non-empty/non-zero and otherwise the default: name "Thermostat
\* #<new id>", mode off, coolSetPoint 71, heatSetPoint 71, fan auto;
\* previousTemp is 0.
C14_CreateDefaults ==
    [][\A p \in Procs :
         AddStep(p) =>
             LET d == desired[p]
                 new == thermostats'[newId'[p]]
             IN  /\ new.Name =
                      IF d.Name # <<>> THEN d.Name ELSE ExpectedDefaultName(newId'[p])
                 /\ new.OperatingMode =
                      IF d.OperatingMode # "" THEN d.OperatingMode ELSE "off"
                 /\ new.CoolSetPoint = IF d.CoolSetPoint # 0 THEN d.CoolSetPoint ELSE 71
                 /\ new.HeatSetPoint = IF d.HeatSetPoint # 0 THEN d.HeatSetPoint ELSE 71
                 /\ new.FanMode = IF d.FanMode # "" THEN d.FanMode ELSE "auto"
                 /\ new.PreviousTemp = 0]_vars

\* C14 witness: the second create gave only the fan and got the default
\* name of id 4 and the other defaults.
C14_Witness ==
    \E p \in Procs :
        /\ pc[p] = "post_lock" /\ newId[p] = 4
        /\ desired[p].Name = <<>> /\ desired[p].FanMode = "on"
        /\ thermostats[4].Name = <<"Thermostat #", "4">>
        /\ thermostats[4].FanMode = "on"
        /\ thermostats[4].OperatingMode = "off"
        /\ thermostats[4].CoolSetPoint = 71 /\ thermostats[4].HeatSetPoint = 71

\* p's Resolve finds the record in this step.
ResolveStep(p) == pc[p] = "mw_cs" /\ pc'[p] = "handler"

\* p's GetThermostat or GetField answers in this step.
GetOneStep(p) == pc[p] = "handler" /\ handler[p] = "GetThermostat" /\ pc'[p] = "done"
GetFieldStep(p) == pc[p] = "handler" /\ handler[p] = "GetField" /\ pc'[p] = "done"

\* C15: a successful PUT stores the request's value for exactly the writable
\* fields that are non-empty/non-zero in it and the resolved target's value
\* for the others; a get resolved after it, with no write in between, finds
\* the stored record and answers with it, or with its name for the field.
C15_PutSetsGivenFields ==
    [][\A p \in Procs :
         /\ UpdateStep(p) =>
              LET tg == target[p]
                  d == desired[p]
                  new == thermostats'[target[p].Id]
              IN  /\ d.Name # <<>> => new.Name = d.Name
                  /\ d.Name = <<>> => new.Name = tg.Name
                  /\ d.OperatingMode # "" => new.OperatingMode = d.OperatingMode
                  /\ d.OperatingMode = "" => new.OperatingMode = tg.OperatingMode
                  /\ d.CoolSetPoint # 0 => new.CoolSetPoint = d.CoolSetPoint
                  /\ d.CoolSetPoint = 0 => new.CoolSetPoint = tg.CoolSetPoint
                  /\ d.HeatSetPoint # 0 => new.HeatSetPoint = d.HeatSetPoint
                  /\ d.HeatSetPoint = 0 => new.HeatSetPoint = tg.HeatSetPoint
                  /\ d.FanMode # "" => new.FanMode = d.FanMode
                  /\ d.FanMode = "" => new.FanMode = tg.FanMode
                  /\ new.Id = tg.Id
         /\ ResolveStep(p) => target'[p] = thermostats[id[p]]
         /\ GetOneStep(p) =>
              (status'[p] = StatusOK /\ body'[p] = <<Payload(target[p])>>)
         /\ (GetFieldStep(p) /\ field'[p] = "name") =>
              (status'[p] = StatusOK /\ body'[p] = <<Payload(target[p].Name)>>)]_vars

\* C15 witness: after a PUT of only the mode to thermostat 1, a get of the
\* record was answered with the new mode and the seeded other fields.
C15_Witness ==
    \E q \in Procs :
        /\ pc[q] = "done" /\ handler[q] = "GetThermostat" /\ status[q] = StatusOK
        /\ Len(body[q]) = 1 /\ body[q][1].kind = "data"
        /\ body[q][1].val.Id = 1
        /\ body[q][1].val.OperatingMode = "off"
        /\ body[q][1].val.Name = defaultName1
        /\ body[q][1].val.FanMode = defaultFan1
        /\ body[q][1].val.CoolSetPoint = defaultCoolSetPt1
        /\ body[q][1].val.HeatSetPoint = defaultHeatSetPt1

\* p's PostThermostat writes its response in this step.
PostAnswerStep(p) == pc[p] = "post_cs" /\ pc'[p] = "done"

\* C16: in every interleaving the record in the body of a successful POST is
\* the one this POST's AddThermostat inserted: the new id with the name,
\* mode, set points and fan of the request, or their defaults.
C16_PostReturnsOwnRecord ==
    [][\A p \in Procs :
         (PostAnswerStep(p) /\ status'[p] = StatusOK) =>
             LET d == desired[p] IN
             /\ Len(body'[p]) = 1
             /\ body'[p][1].kind = "data"
             /\ body'[p][1].val.Id = newId[p]
             /\ body'[p][1].val.Name =
                  IF d.Name # <<>> THEN d.Name ELSE ExpectedDefaultName(newId[p])
             /\ body'[p][1].val.OperatingMode =
                  IF d.OperatingMode # "" THEN d.OperatingMode ELSE "off"
             /\ body'[p][1].val.CoolSetPoint = OrDefault71(d.CoolSetPoint)
             /\ body'[p][1].val.HeatSetPoint = OrDefault71(d.HeatSetPoint)
             /\ body'[p][1].val.FanMode =
                  IF d.FanMode # "" THEN d.FanMode ELSE "auto"]_vars

\* p's GetThermostats answers in this step.
RangeDoneStep(p) == pc[p] = "range" /\ pc'[p] = "done"

\* C17: records are never removed: the store always holds ids 1 and 2 and
\* its set of ids only grows; so the list never answers the empty-store 404,
\* AddThermostat never finds the key list empty, and PostThermostat's lookup
\* of the new id never fails.
C17_NeverRemoved ==
    [][/\ DOMAIN thermostats \subseteq DOMAIN thermostats'
       /\ {1, 2} \subseteq DOMAIN thermostats'
       /\ \A p \in Procs :
            /\ RangeDoneStep(p) =>
                 /\ status'[p] = StatusOK
                 /\ body'[p][1].kind = "data"
                 /\ {1, 2} \subseteq DOMAIN body'[p][1].val
            /\ pc'[p] = "add_cs" => DOMAIN thermostats' # {}
            /\ PostAnswerStep(p) =>
                 /\ newId[p] \in DOMAIN thermostats
                 /\ status'[p] = StatusOK
                 /\ body'[p][1].kind = "data"]_vars

\* C17 witness: a list that ran after a create was answered with the two
\* seeded records and the new one.
C17_Witness ==
    \E p \in Procs :
        /\ pc[p] = "done" /\ handler[p] = "GetThermostats" /\ status[p] = StatusOK
        /\ Len(body[p]) = 1 /\ body[p][1].kind = "data"
        /\ DOMAIN body[p][1].val = {1, 2, 3}

\* The six field names get-field accepts.
C18_Fields == {"name", "currentTemp", "mode", "coolSetPoint", "heatSetPoint", "fan"}

\* get-field answered p with one error object of this status and message.
C18_Error(p, code, msg) ==
    /\ status'[p] = code
    /\ Len(body'[p]) = 1 /\ body'[p][1].kind = "error"
    /\ body'[p][1].Code = code /\ body'[p][1].Msg = msg

\* get-field answered p with 200 and exactly the value v.
C18_Value(p, v) ==
    /\ status'[p] = StatusOK
    /\ Len(body'[p]) = 1 /\ body'[p][1].kind = "data"
    /\ body'[p][1] = Payload(v)

\* C18: for an id present in the store, get-field answers 400 "Invalid
\* Property" when the field name is not one of the six fields; otherwise 404
\* when the resolved record's value for the field is "" or 0; otherwise 200
\* with exactly that value of the resolved record.
C18_GetFieldAnswers ==
    [][\A p \in Procs : GetFieldStep(p) =>
         LET t == target[p]
             f == field'[p]
         IN  /\ f \notin C18_Fields =>
                  C18_Error(p, StatusBadRequest, "Invalid Property")
             /\ f = "name" =>
                  IF t.Name = <<>> THEN C18_Error(p, StatusNotFound, "Not Found")
                  ELSE C18_Value(p, t.Name)
             /\ f = "currentTemp" =>
                  IF t.CurrentTemp = 0 THEN C18_Error(p, StatusNotFound, "Not Found")
                  ELSE C18_Value(p, t.CurrentTemp)
             /\ f = "mode" =>
                  IF t.OperatingMode = "" THEN C18_Error(p, StatusNotFound, "Not Found")
                  ELSE C18_Value(p, t.OperatingMode)
             /\ f = "coolSetPoint" =>
                  IF t.CoolSetPoint = 0 THEN C18_Error(p, StatusNotFound, "Not Found")
                  ELSE C18_Value(p, t.CoolSetPoint)
             /\ f = "heatSetPoint" =>
                  IF t.HeatSetPoint = 0 THEN C18_Error(p, StatusNotFound, "Not Found")
                  ELSE C18_Value(p, t.HeatSetPoint)
             /\ f = "fan" =>
                  IF t.FanMode = "" THEN C18_Error(p, StatusNotFound, "Not Found")
                  ELSE C18_Value(p, t.FanMode)]_vars

\* C18 witness: with the store still as seeded, one get of thermostat 1's
\* currentTemp was answered 200 with 71 and a get of "other" was answered 400.
C18_Witness ==
    /\ thermostats[1].CurrentTemp = 71 /\ thermostats[1].PreviousTemp = 0
    /\ \E p, q \in Procs :
         /\ pc[p] = "done" /\ handler[p] = "GetField" /\ field[p] = "currentTemp"
         /\ status[p] = StatusOK
         /\ Len(body[p]) = 1 /\ body[p][1].kind = "data" /\ body[p][1].val = 71
         /\ pc[q] = "done" /\ handler[q] = "GetField" /\ field[q] = "other"
         /\ status[q] = StatusBadRequest
         /\ Len(body[q]) = 1 /\ body[q][1].kind = "error"
         /\ body[q][1].Msg = "Invalid Property"

\* C18 witness of the 404 branch: a get of currentTemp was answered 404
\* for a record whose current temperature is 0.
C18_WitnessEmpty ==
    \E p \in Procs :
        /\ pc[p] = "done" /\ handler[p] = "GetField" /\ field[p] = "currentTemp"
        /\ status[p] = StatusNotFound
        /\ Len(body[p]) = 1 /\ body[p][1].kind = "error"
        /\ body[p][1].Msg = "Not Found"

\* p's request is a get or a put of one thermostat, before its handler runs.
C19_InMiddleware(p) ==
    /\ handler'[p] \in {"GetThermostat", "GetField", "PutThermostat"}
    /\ pc[p] \in {"idle", "mw_lock", "mw_cs"}
    /\ pc'[p] # pc[p]

\* C19: a GET or PUT addressed to an integer id that is not a key of the
\* store is answered 404 by the lookup, and no step of the request changes
\* the store; a PUT never adds a key to the store.
C19_UnknownIdIs404 ==
    [][\A p \in Procs :
         /\ C19_InMiddleware(p) => thermostats' = thermostats
         /\ (/\ C19_InMiddleware(p) /\ pc[p] = "mw_cs"
             /\ body[p] = <<>> /\ id[p] \notin DOMAIN thermostats) =>
              /\ pc'[p] = "done"
              /\ status'[p] = StatusNotFound
              /\ Len(body'[p]) = 1 /\ body'[p][1].kind = "error"
              /\ body'[p][1].Code = StatusNotFound
         /\ UpdateStep(p) =>
              /\ DOMAIN thermostats' = DOMAIN thermostats
              /\ id[p] \in DOMAIN thermostats]_vars

\* C19 witness: a PUT to thermostat 3 was answered 404 while the store holds
\* the two seeded records only.
C19_Witness ==
    \E p \in Procs :
        /\ pc[p] = "done" /\ handler[p] = "PutThermostat"
        /\ status[p] = StatusNotFound
        /\ Len(body[p]) = 1 /\ body[p][1].kind = "error"
        /\ body[p][1].Description = <<"No thermostat found for id: ", "3">>
        /\ DOMAIN thermostats = {1, 2}

\* p's PutThermostat or PostThermostat decodes and validates its body in
\* this step.
ParseBodyStep(p) ==
    /\ pc[p] = "handler" /\ handler[p] \in {"PutThermostat", "PostThermostat"}
    /\ pc'[p] # "handler"

\* C20: a PUT or POST answered 400 for a malformed body or a failed
\* validation never reaches the store: the step that answers 400 ends the
\* request with the store as it was, and a request that locks or writes the
\* store has sent no error and is not answered 400.
C20_Rejected400NeverWrites ==
    [][\A p \in Procs :
         /\ (ParseBodyStep(p) /\ (status'[p] = StatusBadRequest \/ body'[p] # <<>>)) =>
              /\ pc'[p] = "done"
              /\ status'[p] = StatusBadRequest
              /\ Len(body'[p]) = 1 /\ body'[p][1].kind = "error"
              /\ body'[p][1].Code = StatusBadRequest
              /\ thermostats' = thermostats
         /\ (ParseBodyStep(p) /\ pc'[p] # "done") =>
              /\ ParseAndValidate([ok |-> TRUE, d |-> desired'[p]]) = NoErr
              /\ thermostats' = thermostats
         /\ pc[p] \in {"upd_lock", "upd_cs", "add_lock", "add_cs", "post_lock", "post_cs"} =>
              /\ body[p] = <<>>
              /\ status'[p] # StatusBadRequest]_vars

\* C20 witness: a POST with a malformed body and a PUT with fan "off" were
\* both answered 400 and the store is as it was seeded.
C20_Witness ==
    /\ DOMAIN thermostats = {1, 2}
    /\ thermostats[1].FanMode = defaultFan1 /\ thermostats[1].PreviousTemp = 0
    /\ thermostats[1].CurrentTemp = 71 /\ thermostats[1].LastChanged = 0
    /\ \E p, q \in Procs :
         /\ pc[p] = "done" /\ handler[p] = "PostThermostat"
         /\ status[p] = StatusBadRequest
         /\ Len(body[p]) = 1 /\ body[p][1].kind = "error"
         /\ body[p][1].Msg = "Invalid JSON body provided"
         /\ pc[q] = "done" /\ handler[q] = "PutThermostat"
         /\ status[q] = StatusBadRequest
         /\ Len(body[q]) = 1 /\ body[q][1].kind = "error"
         /\ body[q][1].Msg = "Invalid Fan Mode"

\* C21: every create and every update stamps lastChanged with the time read
\* while the store lock is held, so the lastChanged of successive stored
\* versions of a record never decreases, also when the update was built from
\* a stale target.
C21_LastChangedMonotone ==
    [][/\ \A k \in DOMAIN thermostats :
            thermostats'[k].LastChanged >= thermostats[k].LastChanged
       /\ \A p \in Procs :
            /\ UpdateStep(p) =>
                 /\ mutex = p
                 /\ now' >= now
                 /\ thermostats'[target[p].Id].LastChanged = now'
            /\ AddStep(p) =>
                 /\ mutex = p
                 /\ now' >= now
                 /\ thermostats'[newId'[p]].LastChanged = now']_vars

\* C21 witness: an update built from a target older than the stored version
\* is about to commit, after another update stamped the record with a later
\* time.
C21_Witness ==
    \E p, q \in Procs :
        /\ p # q
        /\ pc[p] = "upd_cs"
        /\ target[p].LastChanged < thermostats[target[p].Id].LastChanged
        /\ thermostats[target[p].Id].LastChanged = now
        /\ pc[q] = "done" /\ handler[q] = "PutThermostat" /\ status[q] = StatusOK

\* p is between Lock and Unlock of Thermostat, UpdateThermostat or
\* AddThermostat.
InCriticalSection(p) == pc[p] \in {"mw_cs", "post_cs", "upd_cs", "add_cs"}

\* C22: at most one request at a time is inside the critical section of
\* Thermostat, UpdateThermostat or AddThermostat, and it is the holder of
\* the lock.
C22_MutualExclusion ==
    /\ \A p, q \in Procs : (InCriticalSection(p) /\ InCriticalSection(q)) => p = q
    /\ \A p \in Procs : InCriticalSection(p) <=> mutex = p

\* C22 witness: one request is inside UpdateThermostat while another waits
\* at the Lock of AddThermostat.
C22_Witness ==
    \E p, q \in Procs :
        /\ pc[p] = "upd_cs" /\ mutex = p
        /\ pc[q] = "add_lock"

\* p's request is in and has not been answered.
InFlight(p) == pc[p] \notin {"idle", "done"}

\* C23: Thermostat, UpdateThermostat and AddThermostat release the lock on
\* every path and never hold it across parsing, validation or response
\* writing; under fair scheduling every request eventually completes with a
\* response.
C23_EveryRequestCompletes ==
    \A p \in Procs : InFlight(p) ~> (pc[p] = "done")

\* What the code does give: a request completes unless the runtime ended
\* the process over the unlocked range of GetThermostats.
C23_CompletesUnlessFatal ==
    \A p \in Procs : InFlight(p) ~> (pc[p] = "done" \/ fatal)

\* The lock is held only between Lock and Unlock of a store operation, and
\* the holder has written nothing to its response while holding it except
\* what the middleware wrote before the lookup.
C23_LockOnlyInStore ==
    \A p \in Procs :
        mutex = p => pc[p] \in {"mw_cs", "post_cs", "upd_cs", "add_cs"}

\* The value of field f of record t.
C24_FieldValue(t, f) ==
    CASE f = "name" -> t.Name
      [] f = "currentTemp" -> t.CurrentTemp
      [] f = "mode" -> t.OperatingMode
      [] f = "coolSetPoint" -> t.CoolSetPoint
      [] f = "heatSetPoint" -> t.HeatSetPoint
      [] f = "fan" -> t.FanMode

\* C24: the record a request obtained at Resolve is the version the store
\* held then and keeps all its field values for the rest of the request; a
\* get-one response is that record, field for field, and a get-field 200 is
\* that record's value, whatever updates were stored in between.
C24_ResolvedRecordIsStable ==
    [][\A p \in Procs :
         /\ ResolveStep(p) => target'[p] = thermostats[id[p]]
         /\ (/\ handler[p] \in WithId
             /\ pc[p] \in {"handler", "upd_lock", "upd_cs"}
             /\ pc'[p] # "done") => target'[p] = target[p]
         /\ GetOneStep(p) =>
              /\ status'[p] = StatusOK
              /\ body'[p] = <<Payload(target[p])>>
         /\ (GetFieldStep(p) /\ status'[p] = StatusOK) =>
              body'[p] = <<Payload(C24_FieldValue(target[p], field'[p]))>>]_vars

\* C24 witness: a get-one request holds the record it resolved while the
\* store already holds a later version of it, written by a finished PUT.
C24_Witness ==
    \E p, q \in Procs :
        /\ pc[p] = "handler" /\ handler[p] = "GetThermostat"
        /\ target[p] # thermostats[target[p].Id]
        /\ pc[q] = "done" /\ handler[q] = "PutThermostat" /\ status[q] = StatusOK

\* C25: an update addressed to id X writes only the map entry X: every
\* record under another id and the set of ids are unchanged, and every
\* stored record's Id field is the key it is stored under, after creation
\* and after every update.
C25_UpdateWritesOnlyItsEntry ==
    [][/\ \A p \in Procs : UpdateStep(p) =>
            /\ target[p].Id = id[p]
            /\ DOMAIN thermostats' = DOMAIN thermostats
            /\ \A k \in DOMAIN thermostats \ {id[p]} :
                 thermostats'[k] = thermostats[k]
       /\ \A k \in DOMAIN thermostats' : thermostats'[k].Id = k
       /\ \A k \in DOMAIN thermostats : thermostats[k].Id = k]_vars

\* C25 witness: a finished PUT renamed thermostat 1 while thermostat 2 is as
\* seeded.
C25_Witness ==
    /\ thermostats[1].Name = <<"X">> /\ thermostats[1].Id = 1
    /\ thermostats[2].Name = defaultName2 /\ thermostats[2].CurrentTemp = 72
    /\ thermostats[2].LastChanged = 0
    /\ \E q \in Procs :
         pc[q] = "done" /\ handler[q] = "PutThermostat" /\ status[q] = StatusOK

\* Records a and b agree on every field but lastChanged.
C26_SameButLastChanged(a, b) ==
    /\ a.Name = b.Name
    /\ a.OperatingMode = b.OperatingMode
    /\ a.CoolSetPoint = b.CoolSetPoint
    /\ a.HeatSetPoint = b.HeatSetPoint
    /\ a.FanMode = b.FanMode
    /\ a.CurrentTemp = b.CurrentTemp
    /\ a.PreviousTemp = b.PreviousTemp

\* C26: PUT is idempotent: the second of two successive applications of the
\* same validated update to a thermostat, with no other write in between,
\* leaves every field but lastChanged as the first left it.
C26_PutIdempotent ==
    [][(vpc = "second" /\ vpc' = "end") =>
         C26_SameButLastChanged(thermostats'[id["g1"]], thermostats[id["g1"]])]_vars

\* C27: after any sequence of validated creates and updates no stored record
\* has an empty name, mode or fan, nor a zero coolSetPoint, heatSetPoint or
\* currentTemp, so get-field answers 200 for each of the six fields of every
\* stored thermostat.
C27_NoEmptyField ==
    \A k \in DOMAIN thermostats :
        /\ thermostats[k].Name # <<>>
        /\ thermostats[k].OperatingMode # ""
        /\ thermostats[k].FanMode # ""
        /\ thermostats[k].CoolSetPoint # 0
        /\ thermostats[k].HeatSetPoint # 0
        /\ thermostats[k].CurrentTemp # 0

\* The fields of C27 the code does keep non-empty: all but currentTemp.
C27_NoEmptyFieldButCurrentTemp ==
    \A k \in DOMAIN thermostats :
        /\ thermostats[k].Name # <<>>
        /\ thermostats[k].OperatingMode # ""
        /\ thermostats[k].FanMode # ""
        /\ thermostats[k].CoolSetPoint # 0
        /\ thermostats[k].HeatSetPoint # 0

\* C28: every stored record has coolSetPoint and heatSetPoint in [30,100],
\* after creates and after updates, also updates applied to a stale target.
C28_SetPointsInRange ==
    \A k \in DOMAIN thermostats :
        /\ 30 <= thermostats[k].CoolSetPoint /\ thermostats[k].CoolSetPoint <= 100
        /\ 30 <= thermostats[k].HeatSetPoint /\ thermostats[k].HeatSetPoint <= 100

\* C28 witness: an update moved thermostat 1's cool set point to the lower
\* limit, the set point left out of the request kept its value, and a
\* request with an out-of-range cool set point was answered 400.
C28_Witness ==
    /\ thermostats[1].CoolSetPoint = 30
    /\ thermostats[1].HeatSetPoint = defaultHeatSetPt1
    /\ \E q \in Procs :
         /\ pc[q] = "done" /\ status[q] = StatusBadRequest
         /\ Len(body[q]) = 1 /\ body[q][1].kind = "error"
         /\ body[q][1].Msg = "Invalid Cool Set Point"

====
